---- MODULE Spec2Model ----
(***************************************************************************)
(* Model of the account endpoint of rebuff's playground server            *)
(* (src/server/pages/api/account.ts): the request handler, the lazy        *)
(* provisioning of the "accounts" and "credits" rows (getAppStateFromDb,   *)
(* getAppStateForUser) and the two tables they work on.                    *)
(*                                                                         *)
(* Every request is a process that advances from one await of the handler  *)
(* to the next; the store answers one call per step, so requests           *)
(* interleave exactly at the store and identity calls.                     *)
(***************************************************************************)
EXTENDS Integers, Sequences, FiniteSets, TLC

\* ------------------------------------------------------------------ bounds
\* Number of requests the model follows.
NumCalls == 2
\* Number of distinct principals (user ids) of the identity provider.
NumPrincipals == 1
\* Number of distinct values randomBytes can yield in the model.
NumKeys == 2

\* A balance below the seed, as a debit by another service leaves it.
DebitedBalance == 250

\* Number of calls of the provider's functions the model follows.
NumClientCalls == 3

\* --------------------------------------------------------------- constants
\* total_credits_cents of a new credits row.
SeedCredits == 1000
\* A JavaScript number or object property that is not set (undefined).
Undefined == -1
\* A string property that is not set.
NoKey == <<>>

Calls == 1..NumCalls
ClientCalls == 1..NumClientCalls
Principals == 1..NumPrincipals
\* What randomBytes can yield: byte strings (of one byte in the model).
RandomBytes == {<<(i * 171) % 256>> : i \in 1..NumKeys}

\* The user objects supabase.auth.getUser can yield: id and email.
Users == {[id |-> p, email |-> p] : p \in Principals}
NoUser == [id |-> Undefined, email |-> Undefined]

\* req.method values: the two the handler serves, one it refuses, and the
\* CORS preflight method.
Methods == {"GET", "POST", "PUT", "OPTIONS"}

\* req.query.slug values: absent, a plain string, and arrays.
NoSlug == [kind |-> "undefined", val |-> <<>>]
Slugs ==
  { NoSlug,
    [kind |-> "string", val |-> <<"apikey">>],
    [kind |-> "array", val |-> <<"apikey">>],
    [kind |-> "array", val |-> <<"other">>],
    [kind |-> "array", val |-> <<"apikey", "x">>] }

NoReq == [method |-> "", slug |-> NoSlug]

\* The response object of a request before the handler touched it.
NoBody == [error |-> "", message |-> "", apikey |-> NoKey, credits |-> Undefined]
NoRes == [status |-> 0, sent |-> FALSE, body |-> NoBody]

VARIABLES
  accounts,   \* table "accounts": a set of rows [id, apikey, name]
  credits,    \* table "credits": a set of rows [id, total_credits_cents]
  pc,         \* where each request's handler is suspended
  req,        \* each request's method and, once the handler read it, query.slug
  session,    \* what getSession yielded: "pending", "null" or "session"
  user,       \* what getUser yielded, NoUser before/without it
  res,        \* each request's response: status, body, whether it was sent
  thrown,     \* message of the Error getAppStateFromDb threw, "" if none
  calls,      \* each request's store calls so far: <<[op, err]>>
  atStart,    \* what getAppStateFromDb found in the tables when it was called
  \* the browser's AppProvider (components/AppContext.tsx):
  appState,       \* useState appState: apikey and credits
  promptLoading,  \* useState promptLoading
  accountLoading, \* useState accountLoading
  attempts,       \* useState attempts: the list of Attempt objects
  cpc,            \* where each call of a provider function is suspended
  ckind,          \* which provider function each call is a call of
  caught          \* the error each call caught, "" if none

serverVars == <<accounts, credits, pc, req, session, user, res, thrown, calls, atStart>>
clientVars == <<appState, promptLoading, accountLoading, attempts, cpc, ckind, caught>>
vars == <<serverVars, clientVars>>

\* ------------------------------------------------------------ the tables
\* The rows of a table with the given id.
RowsOf(table, id) == {r \in table : r.id = id}
HasAccount(p) == RowsOf(accounts, p) # {}
HasCredits(p) == RowsOf(credits, p) # {}

\* JavaScript values as the handler sees them: data is null, one row object
\* or an array; a row's credits property is unset, an object or an array.
NoCreditsProp == [kind |-> "undefined", total_credits_cents |-> Undefined]
NoRowData == [apikey |-> NoKey, credits |-> NoCreditsProp]
NullData == [kind |-> "null", row |-> NoRowData]

\* .from("accounts").select("apikey").eq("id", id).single(): the one matching
\* row as an object holding the selected column, or null with an error when
\* the match is not exactly one row or the store fails. (With no matching row
\* a failing store gives the handler the same answer as a working one, null
\* and an error it only logs; the model tells the failure apart where it
\* changes the answer.)
AccountsSelectSingle(table, id, fault) ==
  IF Cardinality(RowsOf(table, id)) # 1
    THEN [data |-> NullData, error |-> "PGRST116"]
    ELSE IF fault
      THEN [data |-> NullData, error |-> "storage_error"]
      ELSE LET r == CHOOSE x \in RowsOf(table, id) : TRUE
           IN [data |-> [kind |-> "object",
                         row |-> [apikey |-> r.apikey, credits |-> NoCreditsProp]],
               error |-> ""]

\* (an insert that replaces the row of the id, as an upsert would)
AccountsInsertOverwriting(table, row, fault) ==
  IF fault
    THEN [table |-> table, error |-> "storage_error"]
    ELSE [table |-> (table \ RowsOf(table, row.id)) \cup {row}, error |-> ""]

\* .from("accounts").insert([row]): refused when a row with the id exists.
AccountsInsert(table, row, fault) ==
  IF fault
    THEN [table |-> table, error |-> "storage_error"]
    ELSE IF RowsOf(table, row.id) # {}
      THEN [table |-> table, error |-> "23505"]
      ELSE [table |-> table \cup {row}, error |-> ""]

\* (an upsert without ignoreDuplicates: the row of the id is replaced)
CreditsUpsertOverwriting(table, row, fault) ==
  IF fault
    THEN [table |-> table, error |-> "storage_error"]
    ELSE [table |-> (table \ RowsOf(table, row.id)) \cup {row}, error |-> ""]

\* .from("credits").upsert(row, {onConflict: "id", ignoreDuplicates: true}):
\* an existing row with the id is left as it is.
CreditsUpsert(table, row, fault) ==
  IF fault
    THEN [table |-> table, error |-> "storage_error"]
    ELSE IF RowsOf(table, row.id) # {}
      THEN [table |-> table, error |-> ""]
      ELSE [table |-> table \cup {row}, error |-> ""]

\* ------------------------------------------------------ getAppStateForUser
IsArray(v) == v.kind = "array"
TruthyKey(k) == k # NoKey
TruthyProp(v) == v.kind # "undefined"

\* The checks and the assembly of lines 108-116 on the store's answer: the
\* message of the Error thrown ("" when none) and the AppState returned.
getAppStateForUser(resp) ==
  LET data == resp.data IN
  IF ~IsArray(data) \/ ~TruthyKey(data.row.apikey)
    THEN [err |-> "No account found", appState |-> NoBody]
    ELSE IF IsArray(data.row.credits) \/ ~TruthyProp(data.row.credits)
      THEN [err |-> "No credits found", appState |-> NoBody]
      ELSE [err |-> "",
            appState |-> [NoBody EXCEPT !.apikey = data.row.apikey,
                                        !.credits = data.row.credits.total_credits_cents]]

\* Buffer.toString("hex"): two lowercase hex digits per byte.
HexDigits == <<"0", "1", "2", "3", "4", "5", "6", "7",
               "8", "9", "a", "b", "c", "d", "e", "f">>
RECURSIVE ToHex(_)
ToHex(bytes) ==
  IF bytes = <<>>
    THEN <<>>
    ELSE <<HexDigits[(Head(bytes) \div 16) + 1], HexDigits[(Head(bytes) % 16) + 1]>>
         \o ToHex(Tail(bytes))

\* generateApiKey: the hex string of the random bytes drawn.
generateApiKey(bytes) == ToHex(bytes)

\* ---------------------------------------------------------- the responses
\* res.status(s).json(body): the response is sent.
Json(s, body) == [status |-> s, sent |-> TRUE, body |-> body]
ErrorBody(e, m) == [NoBody EXCEPT !.error = e, !.message = m]
NotAllowed == Json(405, ErrorBody("not_allowed", "Method not allowed"))
NotAuthenticated == Json(401, ErrorBody("not_authenticated", "not authenticated"))
\* (a catch that hands the Error's message to the caller)
ServerErrorLeaking(error) == Json(500, ErrorBody("server_error", error))
\* The catch of lines 79-84: the error is logged, the body is fixed.
ServerError(error) == Json(500, ErrorBody("server_error", "something went wrong"))
\* The cors middleware's own answer to a preflight request.
Preflight == [status |-> 204, sent |-> TRUE, body |-> NoBody]
\* res.status(404) of line 95: the status is set and nothing is sent.
NotFound == [status |-> 404, sent |-> FALSE, body |-> NoBody]

\* ------------------------------------------------------------------ Init
\* initState and the useState initial values of AppProvider (lines 13-50).
ClientInit ==
  /\ appState = [kind |-> "object", apikey |-> NoKey, credits |-> 0]
  /\ promptLoading = FALSE
  /\ accountLoading = FALSE
  /\ attempts = <<>>
  /\ cpc = [c \in ClientCalls |-> "idle"]
  /\ ckind = [c \in ClientCalls |-> "none"]
  /\ caught = [c \in ClientCalls |-> ""]

NoStart == [entered |-> FALSE, account |-> FALSE, credits |-> FALSE, resumed |-> FALSE]

Init ==
  /\ accounts = {}
  /\ credits = {}
  /\ pc = [c \in Calls |-> "idle"]
  /\ req = [c \in Calls |-> NoReq]
  /\ session = [c \in Calls |-> "pending"]
  /\ user = [c \in Calls |-> NoUser]
  /\ res = [c \in Calls |-> NoRes]
  /\ thrown = [c \in Calls |-> ""]
  /\ calls = [c \in Calls |-> <<>>]
  /\ atStart = [c \in Calls |-> NoStart]
  /\ ClientInit

\* --------------------------------------------------------------- handler
\* The row of line 129 for the user u, its apikey generated from the bytes k.
NewAccount(u, k) == [id |-> u.id, apikey |-> generateApiKey(k), name |-> u.email]

Call(op, error) == [op |-> op, error |-> error]

\* A request whose provisioning stopped after its accounts insert committed
\* and before the store received its credits upsert.
AbortedAfterInsert(d) ==
  /\ pc[d] = "aborted"
  /\ Len(calls[d]) = 2
  /\ calls[d][2] = Call("insert", "")

\* req.query.slug is set (line 74, line 87).
TruthySlug(s) == s.kind # "undefined"
\* The routing conditions of line 74 and of lines 86-90.
IsGetState(r) == r.method = "GET" /\ ~TruthySlug(r.slug)
IsIssueKey(r) ==
  /\ r.method = "POST"
  /\ TruthySlug(r.slug)
  /\ IsArray(r.slug)
  /\ Len(r.slug.val) = 1
  /\ r.slug.val[1] = "apikey"

\* The method check of line 43.
MethodAllowed(m) == m \in {"POST", "GET"}
\* The checks of line 57 and line 68.
NoSessionCheck(s) == s = "null"
\* (a handler that lets a null user through)
NoUserCheckSkipped(u) == FALSE
NoUserCheck(u) == u = NoUser

\* A request arrives: the handler is invoked and awaits the middleware.
\* Requests are numbered in the order of their arrival.
Request(c, m) ==
  /\ pc[c] = "idle"
  /\ \A d \in Calls : d < c => pc[d] # "idle"
  /\ req' = [req EXCEPT ![c] = [method |-> m, slug |-> NoSlug]]
  /\ pc' = [pc EXCEPT ![c] = "middleware"]
  /\ UNCHANGED <<accounts, credits, session, user, res, thrown, calls, atStart>>
  /\ UNCHANGED clientVars

\* Lines 42-47: cors answers a preflight itself and never calls back, so the
\* handler stays suspended; otherwise the method is checked.
RunMiddleware(c) ==
  /\ pc[c] = "middleware"
  /\ IF req[c].method = "OPTIONS"
       THEN /\ res' = [res EXCEPT ![c] = Preflight]
            /\ pc' = [pc EXCEPT ![c] = "hung"]
       ELSE IF ~MethodAllowed(req[c].method)
         THEN /\ res' = [res EXCEPT ![c] = NotAllowed]
              /\ pc' = [pc EXCEPT ![c] = "returned"]
         ELSE /\ res' = res
              /\ pc' = [pc EXCEPT ![c] = "getSession"]
  /\ UNCHANGED <<accounts, credits, req, session, user, thrown, calls, atStart>>
  /\ UNCHANGED clientVars

\* Lines 49-61: the identity provider yields a session or none.
GetSession(c, s) ==
  /\ pc[c] = "getSession"
  /\ session' = [session EXCEPT ![c] = s]
  /\ IF NoSessionCheck(s)
       THEN /\ res' = [res EXCEPT ![c] = NotAuthenticated]
            /\ pc' = [pc EXCEPT ![c] = "returned"]
       ELSE /\ res' = res
            /\ pc' = [pc EXCEPT ![c] = "getUser"]
  /\ UNCHANGED <<accounts, credits, req, user, thrown, calls, atStart>>
  /\ UNCHANGED clientVars

\* Lines 74-95 for the user u and the request r; the apikey issued at line 92
\* is generated from freshly drawn bytes.
Route(c, u, r) ==
  IF IsGetState(r)
    THEN /\ res' = res
         /\ pc' = [pc EXCEPT ![c] = "select1"]
         /\ atStart' = [atStart EXCEPT ![c] =
              [entered |-> TRUE,
               account |-> HasAccount(u.id),
               credits |-> HasCredits(u.id),
               resumed |-> \E d \in Calls : AbortedAfterInsert(d) /\ user[d] = u]]
    ELSE IF IsIssueKey(r)
      THEN /\ \E k \in RandomBytes :
                res' = [res EXCEPT ![c] = Json(200, [NoBody EXCEPT !.apikey = generateApiKey(k)])]
           /\ pc' = [pc EXCEPT ![c] = "returned"]
           /\ atStart' = atStart
      ELSE /\ res' = [res EXCEPT ![c] = NotFound]
           /\ pc' = [pc EXCEPT ![c] = "returned"]
           /\ atStart' = atStart

\* (a handler that stores the apikey it issues in the user's accounts row)
GetUserPersisting(c, u, s) ==
  /\ pc[c] = "getUser"
  /\ user' = [user EXCEPT ![c] = u]
  /\ IF NoUserCheck(u)
       THEN /\ res' = [res EXCEPT ![c] = NotAuthenticated]
            /\ pc' = [pc EXCEPT ![c] = "returned"]
            /\ req' = req
            /\ atStart' = atStart
            /\ accounts' = accounts
       ELSE /\ req' = [req EXCEPT ![c].slug = s]
            /\ Route(c, u, [req[c] EXCEPT !.slug = s])
            /\ accounts' =
                 IF IsIssueKey([req[c] EXCEPT !.slug = s])
                   THEN {[row EXCEPT !.apikey =
                            IF row.id = u.id THEN res'[c].body.apikey ELSE @]
                         : row \in accounts}
                   ELSE accounts
  /\ UNCHANGED <<credits, session, thrown, calls>>
  /\ UNCHANGED clientVars

\* Lines 63-95: the identity provider yields a user or none, and the request
\* is routed on its method and its query.slug s (read here for the first
\* time): to getAppStateFromDb (whose first select is issued), to a fresh
\* apikey, or to line 95.
GetUser(c, u, s) ==
  /\ pc[c] = "getUser"
  /\ user' = [user EXCEPT ![c] = u]
  /\ IF NoUserCheck(u)
       THEN /\ res' = [res EXCEPT ![c] = NotAuthenticated]
            /\ pc' = [pc EXCEPT ![c] = "returned"]
            /\ req' = req
            /\ atStart' = atStart
       ELSE /\ req' = [req EXCEPT ![c].slug = s]
            /\ Route(c, u, [req[c] EXCEPT !.slug = s])
  /\ UNCHANGED <<accounts, credits, session, thrown, calls>>
  /\ UNCHANGED clientVars


\* ----------------------------------------------------- getAppStateFromDb
\* Lines 119-130: the store answers the first select; the state is returned
\* when getAppStateForUser accepts the answer, otherwise the error is logged
\* and the accounts insert is issued.
Select1(c, fault) ==
  /\ pc[c] = "select1"
  /\ LET resp == AccountsSelectSingle(accounts, user[c].id, fault)
         got == getAppStateForUser(resp)
     IN /\ calls' = [calls EXCEPT ![c] = Append(@, Call("select", resp.error))]
        /\ IF got.err = ""
             THEN /\ res' = [res EXCEPT ![c] = Json(200, got.appState)]
                  /\ pc' = [pc EXCEPT ![c] = "returned"]
             ELSE /\ res' = res
                  /\ pc' = [pc EXCEPT ![c] = "insert"]
  /\ UNCHANGED <<accounts, credits, req, session, user, thrown, atStart>>
  /\ UNCHANGED clientVars

\* (a call that goes on to the credits upsert whatever the insert answered)
InsertIgnoringError(c, fault, k) ==
  /\ pc[c] = "insert"
  /\ LET out == AccountsInsert(accounts, NewAccount(user[c], k), fault)
     IN /\ accounts' = out.table
        /\ calls' = [calls EXCEPT ![c] = Append(@, Call("insert", out.error))]
        /\ pc' = [pc EXCEPT ![c] = "upsert"]
  /\ UNCHANGED <<credits, req, session, user, res, thrown, atStart>>
  /\ UNCHANGED clientVars

\* Lines 127-140: the store answers the insert of the row that carries the
\* apikey generated from the drawn bytes k; on an error the call throws
\* (caught at line 79), otherwise the credits upsert is issued.
Insert(c, fault, k) ==
  /\ pc[c] = "insert"
  /\ LET out == AccountsInsert(accounts, NewAccount(user[c], k), fault)
     IN /\ accounts' = out.table
        /\ calls' = [calls EXCEPT ![c] = Append(@, Call("insert", out.error))]
        /\ IF out.error # ""
             THEN /\ thrown' = [thrown EXCEPT ![c] = "Error creating account"]
                  /\ res' = [res EXCEPT ![c] = ServerError("Error creating account")]
                  /\ pc' = [pc EXCEPT ![c] = "returned"]
             ELSE /\ thrown' = thrown
                  /\ res' = res
                  /\ pc' = [pc EXCEPT ![c] = "upsert"]
  /\ UNCHANGED <<credits, req, session, user, atStart>>
  /\ UNCHANGED clientVars

\* Lines 135-145: the store answers the upsert; on an error the call throws,
\* otherwise the second select is issued.
Upsert(c, fault) ==
  /\ pc[c] = "upsert"
  /\ LET row == [id |-> user[c].id, total_credits_cents |-> SeedCredits]
         out == CreditsUpsert(credits, row, fault)
     IN /\ credits' = out.table
        /\ calls' = [calls EXCEPT ![c] = Append(@, Call("upsert", out.error))]
        /\ IF out.error # ""
             THEN /\ thrown' = [thrown EXCEPT ![c] = "Error creating credits"]
                  /\ res' = [res EXCEPT ![c] = ServerError("Error creating credits")]
                  /\ pc' = [pc EXCEPT ![c] = "returned"]
             ELSE /\ thrown' = thrown
                  /\ res' = res
                  /\ pc' = [pc EXCEPT ![c] = "select2"]
  /\ UNCHANGED <<accounts, req, session, user, atStart>>
  /\ UNCHANGED clientVars

\* (a call that starts the creation over when the second select fails)
Select2Retrying(c, fault) ==
  /\ pc[c] = "select2"
  /\ LET resp == AccountsSelectSingle(accounts, user[c].id, fault)
         got == getAppStateForUser(resp)
     IN /\ calls' = [calls EXCEPT ![c] = Append(@, Call("select", resp.error))]
        /\ IF got.err = ""
             THEN /\ res' = [res EXCEPT ![c] = Json(200, got.appState)]
                  /\ pc' = [pc EXCEPT ![c] = "returned"]
             ELSE /\ res' = res
                  /\ pc' = [pc EXCEPT ![c] = "insert"]
  /\ UNCHANGED <<accounts, credits, req, session, user, thrown, atStart>>
  /\ UNCHANGED clientVars

\* Line 145 and lines 78-84: the store answers the second select; the state
\* is returned or the Error of getAppStateForUser reaches the handler's catch.
Select2(c, fault) ==
  /\ pc[c] = "select2"
  /\ LET resp == AccountsSelectSingle(accounts, user[c].id, fault)
         got == getAppStateForUser(resp)
     IN /\ calls' = [calls EXCEPT ![c] = Append(@, Call("select", resp.error))]
        /\ thrown' = [thrown EXCEPT ![c] = got.err]
        /\ res' = [res EXCEPT ![c] =
             IF got.err = "" THEN Json(200, got.appState) ELSE ServerError(got.err)]
        /\ pc' = [pc EXCEPT ![c] = "returned"]
  /\ UNCHANGED <<accounts, credits, req, session, user, atStart>>
  /\ UNCHANGED clientVars

\* The request is cut off after a write of getAppStateFromDb committed, while
\* it awaits the next store call (the function instance is gone): nothing
\* more runs for it and what it wrote stays.
Abort(c) ==
  /\ pc[c] \in {"upsert", "select2"}
  /\ pc' = [pc EXCEPT ![c] = "aborted"]
  /\ UNCHANGED <<accounts, credits, req, session, user, res, thrown, calls, atStart>>
  /\ UNCHANGED clientVars

Next ==
  \E c \in Calls :
    \/ \E m \in Methods : Request(c, m)
    \/ RunMiddleware(c)
    \/ \E s \in {"null", "session"} : GetSession(c, s)
    \/ \E u \in Users \cup {NoUser}, s \in Slugs : GetUser(c, u, s)
    \/ \E fault \in BOOLEAN : Select1(c, fault)
    \/ \E fault \in BOOLEAN, k \in RandomBytes : Insert(c, fault, k)
    \/ \E fault \in BOOLEAN : Upsert(c, fault)
    \/ \E fault \in BOOLEAN : Select2(c, fault)
    \/ Abort(c)

Spec == Init /\ [][Next]_vars

\* ============================================================ AppProvider
\* The provider functions a call can be a call of.
Kinds == {"refreshAppState", "refreshApikey", "submitPrompt"}
\* The two functions that share promptLoading.
PromptKinds == {"refreshApikey", "submitPrompt"}

\* What response.json() can yield, as far as the functions look at it: null,
\* or an object whose apikey and credits are set or not.
NullJson == [kind |-> "null", apikey |-> NoKey, credits |-> Undefined]
JsonValues ==
  {NullJson}
    \cup {[kind |-> "object", apikey |-> generateApiKey(k), credits |-> SeedCredits] :
            k \in RandomBytes}
    \cup {[kind |-> "object", apikey |-> NoKey, credits |-> Undefined]}

\* Line 66: setAppState(data) stores whatever was parsed, null included.
setAppState(prev, data) == data
\* Lines 161-163: {...prev, apikey}; spreading a null prev gives no property.
setApikey(prev, apikey) ==
  [kind |-> "object",
   apikey |-> apikey,
   credits |-> IF prev.kind = "null" THEN Undefined ELSE prev.credits]

\* An Attempt, as far as the model keeps it: the call whose prompt it holds
\* (input) and its error ("" for null).
Attempt(c, error) == [input |-> c, error |-> error]
\* The updaters of line 119 and of line 133.
AppendAttemptStale(prev, a) == <<a>>
AppendAttempt(prev, a) == prev \o <<a>>
PrependAttempt(prev, a) == <<a>> \o prev

\* The finally blocks (lines 69-71, 83-85, 156-158): the flag of the function
\* is set to false, however the try ended.
AccountLoadingAfter(kind, threw, cur) ==
  IF kind = "refreshAppState" THEN FALSE ELSE cur
PromptLoadingAfterNoFinally(kind, threw, cur) ==
  IF kind \in PromptKinds /\ ~threw THEN FALSE ELSE cur
PromptLoadingAfter(kind, threw, cur) ==
  IF kind \in PromptKinds THEN FALSE ELSE cur

\* A call of a provider function has run to its end: the catch block when it
\* threw error ("" when it did not), then the finally block.
Settle(c, error) ==
  /\ cpc' = [cpc EXCEPT ![c] = "done"]
  /\ caught' = [caught EXCEPT ![c] = error]
  /\ accountLoading' = AccountLoadingAfter(ckind[c], error # "", accountLoading)
  /\ promptLoading' = PromptLoadingAfter(ckind[c], error # "", promptLoading)

\* Lines 61-64, 73-78, 87-98: a provider function is called; it sets its
\* loading flag and awaits its fetch. Calls are numbered in the order made.
Start(c, kind) ==
  /\ cpc[c] = "idle"
  /\ \A d \in ClientCalls : d < c => cpc[d] # "idle"
  /\ ckind' = [ckind EXCEPT ![c] = kind]
  /\ cpc' = [cpc EXCEPT ![c] = "fetch"]
  /\ accountLoading' = IF kind = "refreshAppState" THEN TRUE ELSE accountLoading
  /\ promptLoading' = IF kind \in PromptKinds THEN TRUE ELSE promptLoading
  /\ UNCHANGED <<appState, attempts, caught>>
  /\ UNCHANGED serverVars

\* The awaited fetch settles: resolved, the function awaits response.json();
\* rejected, its catch and finally run (submitPrompt puts a failed Attempt in
\* front of the list).
Fetched(c, ok) ==
  /\ cpc[c] = "fetch"
  /\ IF ok
       THEN /\ cpc' = [cpc EXCEPT ![c] = "json"]
            /\ UNCHANGED <<promptLoading, accountLoading, attempts, caught>>
       ELSE /\ Settle(c, "fetch failed")
            /\ attempts' = IF ckind[c] = "submitPrompt"
                             THEN PrependAttempt(attempts, Attempt(c, "fetch failed"))
                             ELSE attempts
  /\ UNCHANGED <<appState, ckind>>
  /\ UNCHANGED serverVars

\* What the try block of a function throws once response.json() has yielded
\* data ("" when nothing): reading data.apikey (line 80) or destructuring
\* data (line 101) throws on null.
ThrowsOn(kind, data) ==
  IF kind \in PromptKinds /\ data.kind = "null" THEN "TypeError" ELSE ""

\* The awaited response.json() settles: rejected, the catch and finally run;
\* resolved, the rest of the try runs on the data (setAppState, setApikey or
\* the appended Attempt), then the finally.
Parsed(c, ok, data) ==
  /\ cpc[c] = "json"
  /\ LET error == IF ok THEN ThrowsOn(ckind[c], data) ELSE "invalid json"
     IN /\ Settle(c, error)
        /\ appState' =
             IF error # "" THEN appState
             ELSE IF ckind[c] = "refreshAppState"
               THEN setAppState(appState, data)
             ELSE IF ckind[c] = "refreshApikey"
               THEN setApikey(appState, data.apikey)
             ELSE appState
        /\ attempts' =
             IF ckind[c] # "submitPrompt" THEN attempts
             ELSE IF error = ""
               THEN AppendAttempt(attempts, Attempt(c, ""))
               ELSE PrependAttempt(attempts, Attempt(c, error))
  /\ UNCHANGED ckind
  /\ UNCHANGED serverVars

NextClient ==
  \E c \in ClientCalls :
    \/ \E kind \in Kinds : Start(c, kind)
    \/ \E ok \in BOOLEAN : Fetched(c, ok)
    \/ \E ok \in BOOLEAN, data \in JsonValues : Parsed(c, ok, data)

SpecClient == Init /\ [][NextClient]_vars

\* ================================================================ claims
\* A provisioning call: the request reached getAppStateFromDb.
Provisioning(c) == atStart[c].entered
\* The principal of a provisioning call.
PrincipalOf(c) == user[c].id
\* The handler of the request has returned.
Returned(c) == pc[c] = "returned"
\* No store call of the request failed for a reason of the store's own.
NoStoreFault(c) == \A i \in 1..Len(calls[c]) : calls[c][i].error # "storage_error"
\* The apikeys and balances persisted for a principal.
PersistedKeys(p) == {r.apikey : r \in RowsOf(accounts, p)}
PersistedBalances(p) == {r.total_credits_cents : r \in RowsOf(credits, p)}
\* The request was answered with the state persisted for its principal.
ReturnedPersistedState(c) ==
  /\ res[c].sent
  /\ res[c].status = 200
  /\ PersistedKeys(PrincipalOf(c)) = {res[c].body.apikey}
  /\ PersistedBalances(PrincipalOf(c)) = {res[c].body.credits}

\* C1 (race safety): when N >= 2 provisioning calls for one principal, all
\* started while it had no records, have all returned without a store fault,
\* the tables hold exactly one accounts row and one credits row for it and
\* every one of the calls was answered 200 with the persisted apikey.
C1_RaceSafety ==
  \A p \in Principals :
    LET cs == {c \in Calls : Provisioning(c) /\ PrincipalOf(c) = p}
    IN ( /\ Cardinality(cs) >= 2
         /\ \A c \in cs : /\ ~atStart[c].account
                          /\ ~atStart[c].credits
                          /\ Returned(c)
                          /\ NoStoreFault(c) )
       => /\ Cardinality(RowsOf(accounts, p)) = 1
          /\ Cardinality(RowsOf(credits, p)) = 1
          /\ \A c \in cs : ReturnedPersistedState(c)

\* C2 (conflict absorbed): a call whose accounts insert met the uniqueness
\* conflict does not fail because of it: once it has returned it did not
\* throw "Error creating account" and it went on to the credits upsert and to
\* the second select.
C2_ConflictAbsorbed ==
  \A c \in Calls :
    (Returned(c) /\ \E i \in 1..Len(calls[c]) : calls[c][i] = Call("insert", "23505"))
    => /\ thrown[c] # "Error creating account"
       /\ \E j \in 1..Len(calls[c]) : calls[c][j].op = "upsert"
       /\ calls[c][Len(calls[c])].op = "select"

\* C3 (idempotent read): a provisioning call for a principal that had both
\* rows when it started, and met no store fault, is answered 200 with the
\* persisted apikey and balance after one select and no write attempt; two
\* such calls are answered alike.
C3_IdempotentRead ==
  \A c \in Calls :
    ( /\ Provisioning(c) /\ Returned(c) /\ NoStoreFault(c)
      /\ atStart[c].account /\ atStart[c].credits )
    => /\ ReturnedPersistedState(c)
       /\ calls[c] = <<Call("select", "")>>
       /\ \A d \in Calls :
            ( /\ Provisioning(d) /\ Returned(d) /\ NoStoreFault(d)
              /\ atStart[d].account /\ atStart[d].credits
              /\ PrincipalOf(d) = PrincipalOf(c) )
            => res[d].body = res[c].body

\* C4 (lazy creation): the only provisioning call for a principal that had no
\* rows, once returned without a store fault, was answered 200 with the
\* persisted apikey and balance 1000, and the principal has exactly one
\* accounts row and exactly one credits row, of balance 1000.
C4_LazyCreation ==
  \A c \in Calls :
    ( /\ Provisioning(c) /\ Returned(c) /\ NoStoreFault(c)
      /\ ~atStart[c].account /\ ~atStart[c].credits
      /\ \A d \in Calls \ {c} : ~(Provisioning(d) /\ PrincipalOf(d) = PrincipalOf(c)) )
    => /\ ReturnedPersistedState(c)
       /\ res[c].body.credits = SeedCredits
       /\ Cardinality(RowsOf(accounts, PrincipalOf(c))) = 1
       /\ PersistedBalances(PrincipalOf(c)) = {SeedCredits}
       /\ Cardinality(RowsOf(credits, PrincipalOf(c))) = 1

\* C6 (partial-failure avoidance): whenever a provisioning call has returned,
\* with success or failure, its principal has both rows or neither.
C6_BothOrNeither ==
  \A c \in Calls :
    (Provisioning(c) /\ Returned(c))
    => (HasAccount(PrincipalOf(c)) <=> HasCredits(PrincipalOf(c)))

\* C7 (resumability): a provisioning call that started after another call for
\* the same principal was cut off between its committed accounts insert and
\* its credits upsert, and that returned without a store fault, was answered
\* 200 with the persisted state, and both rows are present.
C7_Resumable ==
  \A c \in Calls :
    (Provisioning(c) /\ atStart[c].resumed /\ Returned(c) /\ NoStoreFault(c))
    => /\ ReturnedPersistedState(c)
       /\ HasAccount(PrincipalOf(c))
       /\ HasCredits(PrincipalOf(c))

\* No provisioning call is ever answered 200: getAppStateForUser rejects
\* every answer .single() can give (the answer is never an array).
GetStateNeverSucceeds == \A c \in Calls : Provisioning(c) => res[c].status # 200

\* The identity provider was asked and yielded no session, or no user.
Unverified(c) ==
  \/ session[c] = "null"
  \/ session[c] = "session" /\ pc[c] # "getUser" /\ user[c] = NoUser

\* C8 (unauthenticated rejection): a request for which the identity provider
\* yielded no session or no user has been answered 401 not_authenticated, its
\* handler has returned, and it made no store call at all.
C8_UnauthenticatedRejection ==
  \A c \in Calls :
    Unverified(c) => /\ res[c] = NotAuthenticated
                     /\ Returned(c)
                     /\ calls[c] = <<>>
                     /\ ~Provisioning(c)

\* Both cases of C8 have happened: one request met no session, another met a
\* session and no user, and both handlers have returned.
C8_Witness ==
  \E c, d \in Calls :
    /\ session[c] = "null" /\ Returned(c)
    /\ session[d] = "session" /\ user[d] = NoUser /\ Returned(d)

\* What the store and getAppStateFromDb say about a failure.
FailureDetail ==
  {"PGRST116", "23505", "storage_error", "No account found", "No credits found",
   "Error creating account", "Error creating credits"}

\* C9 (endpoint outcomes on failure): a provisioning call that threw has been
\* answered 500 server_error with the fixed message, which holds nothing of
\* the failure; and a provisioning call answered 200 carries an apikey and a
\* balance, both set and both the persisted ones.
C9_FailureOutcome ==
  \A c \in Calls :
    /\ (Provisioning(c) /\ thrown[c] # "" /\ Returned(c))
         => /\ res[c].sent
            /\ res[c].status = 500
            /\ res[c].body = ErrorBody("server_error", "something went wrong")
            /\ res[c].body.message \notin FailureDetail
            /\ res[c].body.error \notin FailureDetail
    /\ (Provisioning(c) /\ res[c].status = 200)
         => /\ res[c].body.apikey # NoKey
            /\ res[c].body.credits # Undefined
            /\ ReturnedPersistedState(c)

\* One call has failed at the insert and another at the second select, and
\* each was answered 500.
C9_Witness ==
  \E c, d \in Calls :
    /\ Returned(c) /\ thrown[c] = "Error creating account" /\ res[c].status = 500
    /\ Returned(d) /\ thrown[d] = "No account found" /\ res[d].status = 500

\* A request of a shape the endpoint does not serve.
UnsupportedShape(c) ==
  \/ ~MethodAllowed(req[c].method)
  \/ /\ user[c] # NoUser
     /\ ~IsGetState(req[c])
     /\ ~IsIssueKey(req[c])

\* C10 (every request answered): once the handler of a request has returned,
\* a response was sent with one of the four outcomes, and a request of an
\* unsupported shape was sent the not-found/not-allowed one.
C10_AnsweredOnReturn ==
  \A c \in Calls :
    Returned(c)
    => /\ res[c].sent
       /\ res[c].status \in {200, 401, 404, 405, 500}
       /\ UnsupportedShape(c) => res[c].status \in {404, 405}

IssuableKeys == {generateApiKey(k) : k \in RandomBytes}

\* The step in which request c is issued a new apikey (lines 92-93).
IssuesKey(c) ==
  /\ pc[c] = "getUser"
  /\ pc'[c] = "returned"
  /\ res'[c].status = 200

\* C12 (issue new credential): the step that answers an authenticated POST
\* .../apikey sends 200 with a generated apikey and nothing else set, and
\* leaves both tables as they were, so that what a select of any principal's
\* accounts row yields afterwards is the apikey persisted before.
C12_IssueLeavesStore ==
  [][\A c \in Calls :
       IssuesKey(c)
       => /\ IsIssueKey(req'[c])
          /\ res'[c].sent
          /\ res'[c].body.apikey \in IssuableKeys
          /\ res'[c].body = [NoBody EXCEPT !.apikey = res'[c].body.apikey]
          /\ accounts' = accounts
          /\ credits' = credits
          /\ \A p \in Principals :
               AccountsSelectSingle(accounts', p, FALSE)
                 = AccountsSelectSingle(accounts, p, FALSE)]_vars

\* A principal with an accounts row was issued an apikey that is not the
\* persisted one, which a select of its row still yields.
C12_Witness ==
  \E c \in Calls :
    /\ IsIssueKey(req[c]) /\ Returned(c) /\ res[c].status = 200
    /\ HasAccount(user[c].id)
    /\ res[c].body.apikey \notin PersistedKeys(user[c].id)
    /\ AccountsSelectSingle(accounts, user[c].id, FALSE).data.row.apikey
         \in PersistedKeys(user[c].id)

\* ------------------------------------------------- pre-existing credits
\* The database outlives the server: a specification in which the credits
\* table already holds rows when the first request arrives (rows that an
\* earlier life of the database left, their balances debited since), and in
\* which every request is an authenticated GET of the current state.
InitLedger ==
  /\ accounts = {}
  /\ credits \in SUBSET {[id |-> p, total_credits_cents |-> DebitedBalance] : p \in Principals}
  /\ pc = [c \in Calls |-> "idle"]
  /\ req = [c \in Calls |-> NoReq]
  /\ session = [c \in Calls |-> "pending"]
  /\ user = [c \in Calls |-> NoUser]
  /\ res = [c \in Calls |-> NoRes]
  /\ thrown = [c \in Calls |-> ""]
  /\ calls = [c \in Calls |-> <<>>]
  /\ atStart = [c \in Calls |-> NoStart]
  /\ ClientInit

NextLedger ==
  \E c \in Calls :
    \/ Request(c, "GET")
    \/ RunMiddleware(c)
    \/ GetSession(c, "session")
    \/ \E u \in Users : GetUser(c, u, NoSlug)
    \/ \E fault \in BOOLEAN : Select1(c, fault)
    \/ \E fault \in BOOLEAN, k \in RandomBytes : Insert(c, fault, k)
    \/ \E fault \in BOOLEAN : Upsert(c, fault)
    \/ \E fault \in BOOLEAN : Select2(c, fault)
    \/ Abort(c)

SpecLedger == InitLedger /\ [][NextLedger]_vars

\* The step in which the store answers the credits upsert of request c.
UpsertAnswered(c) == pc[c] = "upsert" /\ pc'[c] \notin {"upsert", "aborted"}

\* C13 (seed assigned once): the upsert step of a call writes the row of
\* balance 1000 only when its principal has no credits row; when a row exists,
\* whatever its balance, the step leaves it as it is and, unless the store
\* itself failed, reports no error and the call goes on to the second select.
\* No other principal's row changes.
C13_SeedOnce ==
  [][\A c \in Calls :
       UpsertAnswered(c)
       => LET p == user[c].id
              error == calls'[c][Len(calls'[c])].error
          IN /\ calls'[c][Len(calls'[c])].op = "upsert"
             /\ error \in {"", "storage_error"}
             /\ IF HasCredits(p)
                  THEN /\ RowsOf(credits', p) = RowsOf(credits, p)
                       /\ error = "" => pc'[c] = "select2"
                  ELSE RowsOf(credits', p) =
                         IF error = ""
                           THEN {[id |-> p, total_credits_cents |-> SeedCredits]}
                           ELSE {}
             /\ \A q \in Principals \ {p} : RowsOf(credits', q) = RowsOf(credits, q)]_vars

\* The upsert of a call has succeeded for a principal whose credits row was
\* there before, with a debited balance, and the row still has that balance.
C13_Witness ==
  \E c \in Calls :
    /\ pc[c] = "select2"
    /\ calls[c][Len(calls[c])] = Call("upsert", "")
    /\ PersistedBalances(PrincipalOf(c)) = {DebitedBalance}

\* The store calls of a getAppStateFromDb call that runs to its end, in order.
FullSequence == <<"select", "insert", "upsert", "select">>

\* C15 (no retry): the store calls a request has made are a beginning of
\* select, insert, upsert, select (so at most two reads, one insert attempt
\* and one upsert attempt); an insert or upsert that failed is the last call
\* of its request and the handler has returned; and after the fourth call the
\* handler has returned.
C15_NoRetry ==
  \A c \in Calls :
    /\ Len(calls[c]) <= Len(FullSequence)
    /\ \A i \in 1..Len(calls[c]) :
         /\ calls[c][i].op = FullSequence[i]
         /\ (calls[c][i].op # "select" /\ calls[c][i].error # "")
              => (i = Len(calls[c]) /\ Returned(c))
    /\ Len(calls[c]) = Len(FullSequence) => Returned(c)

\* One request has made all four calls and returned with a failure, another
\* has failed at its insert and returned after two calls.
C15_Witness ==
  \E c, d \in Calls :
    /\ Returned(c) /\ Len(calls[c]) = 4 /\ thrown[c] # ""
    /\ Returned(d) /\ Len(calls[d]) = 2 /\ calls[d][2].error # ""

\* C16 (write ordering): a request's credits upsert comes right after its
\* accounts insert, and only after that insert succeeded; and, the tables
\* being empty at the start and written by nobody else, a principal has a
\* credits row only if it has an accounts row.
C16_AccountBeforeCredits ==
  /\ \A c \in Calls : \A i \in 1..Len(calls[c]) :
       calls[c][i].op = "upsert" => (i > 1 /\ calls[c][i - 1] = Call("insert", ""))
  /\ \A p \in Principals : HasCredits(p) => HasAccount(p)

\* A request's insert and upsert have both succeeded and its principal has
\* both rows, while another request's insert failed and no upsert followed.
C16_Witness ==
  \E c, d \in Calls :
    /\ Len(calls[c]) >= 3 /\ calls[c][3] = Call("upsert", "")
    /\ HasAccount(PrincipalOf(c)) /\ HasCredits(PrincipalOf(c))
    /\ Returned(d) /\ Len(calls[d]) = 2 /\ calls[d][2].error # ""


\* ------------------------------------------------------ AppProvider claims
\* A call has started and has not run to its end.
InFlight(c) == cpc[c] \in {"fetch", "json"}
Completed(c) == cpc[c] = "done"
Threw(c) == Completed(c) /\ caught[c] # ""

\* C17: once every started refreshAppState call has completed, accountLoading
\* is false, and once every started refreshApikey and submitPrompt call has
\* completed, promptLoading is false, whether the calls succeeded or threw.
C17_FlagsReleased ==
  /\ (\A c \in ClientCalls : ckind[c] = "refreshAppState" => ~InFlight(c))
       => ~accountLoading
  /\ (\A c \in ClientCalls : ckind[c] \in PromptKinds => ~InFlight(c))
       => ~promptLoading

\* A refreshAppState call and a submitPrompt call have thrown, a refreshApikey
\* call has succeeded, nothing is in flight and both flags are false.
C17_Witness ==
  /\ \E c \in ClientCalls : ckind[c] = "refreshAppState" /\ Threw(c)
  /\ \E c \in ClientCalls : ckind[c] = "submitPrompt" /\ Threw(c)
  /\ \E c \in ClientCalls :
       ckind[c] = "refreshApikey" /\ Completed(c) /\ ~Threw(c)
  /\ \A c \in ClientCalls : ~InFlight(c)
  /\ ~accountLoading
  /\ ~promptLoading

\* C18: promptLoading is true whenever at least one submitPrompt or
\* refreshApikey call has started and not yet completed.
C18_LoadingWhileInFlight ==
  (\E c \in ClientCalls : ckind[c] \in PromptKinds /\ InFlight(c))
    => promptLoading

CompletedSubmits == {c \in ClientCalls : ckind[c] = "submitPrompt" /\ Completed(c)}

\* C19: a step that completes a submitPrompt call adds exactly one Attempt,
\* with no error after all existing entries when the call succeeded and with
\* the caught error before all existing entries when it failed; every other
\* step leaves the history as it is; so the length of the history is the
\* number of completed submitPrompt calls.
C19_NoLostUpdate ==
  [][/\ Len(attempts) = Cardinality(CompletedSubmits)
     /\ Len(attempts') = Cardinality(CompletedSubmits')
     /\ \A c \in ClientCalls :
          (c \in CompletedSubmits' /\ c \notin CompletedSubmits) =>
            IF caught'[c] = ""
              THEN attempts' = attempts \o <<Attempt(c, "")>>
              ELSE attempts' = <<Attempt(c, caught'[c])>> \o attempts
     /\ (CompletedSubmits' = CompletedSubmits) => attempts' = attempts]_vars

\* Three overlapping submitPrompt calls have completed: the failed one is in
\* front, and of the two successes the one started later completed first.
C19_Witness ==
  /\ Len(attempts) = 3
  /\ attempts[1].error # ""
  /\ attempts[2].error = ""
  /\ attempts[3].error = ""
  /\ attempts[2].input > attempts[3].input

====
